---- MODULE Spec2Model ----
(***************************************************************************)
(* PageRank core of src/pagerank/pagerank.py: transition_model,            *)
(* sample_pagerank and iterate_pagerank, as a state machine.               *)
(*                                                                         *)
(* Numbers.  The program computes on reals (Python floats).  The model     *)
(* computes the same expressions exactly: a number is a non-negative       *)
(* terminating fraction in base BASE, written as a sequence of naturals    *)
(* <<int, f1, f2, ...>> = int + f1/BASE + f2/BASE^2 + ..., with no         *)
(* trailing zero digit.  BASE is a common multiple of the denominator of   *)
(* the damping factors, of every node count and out-degree and of every    *)
(* sample count, so each division the program performs before its final   *)
(* renormalisation is exact.  The final renormalisation divides by `total`,*)
(* which is kept as the divisor: the returned rank of page p is the ratio  *)
(* probabilities[p] / total.                                               *)
(*                                                                         *)
(* The damping factor is given as a numerator over DampDen (17 = 0.85).    *)
(***************************************************************************)
EXTENDS Integers, Sequences, FiniteSets, TLC

\* ---------------------------------------------------------------- bounds
MaxNodes == 3
MaxSamples == 3
MaxPasses == 24

\* ------------------------------------------------------ program constants
\* DAMPING = 0.85 = DAMPING_NUM / DampDen
DAMPING_NUM == 17
DampDen == 20
\* the convergence threshold 0.001 = 1 / EpsDen
EpsDen == 1000

\* ------------------------------------------------------ exact arithmetic
RECURSIVE Gcd(_, _)
Gcd(a, b) == IF b = 0 THEN a ELSE Gcd(b, a % b)

Lcm(a, b) == (a * b) \div Gcd(a, b)

RECURSIVE LcmUpTo(_)
LcmUpTo(k) == IF k <= 1 THEN 1 ELSE Lcm(k, LcmUpTo(k - 1))

Divisors == Lcm(DampDen, Lcm(LcmUpTo(MaxNodes), LcmUpTo(MaxSamples)))

BASE == Divisors * Divisors

Zero == <<0>>
One == <<1>>

RECURSIVE Norm(_)
Norm(s) == IF Len(s) > 1 /\ s[Len(s)] = 0 THEN Norm(SubSeq(s, 1, Len(s) - 1)) ELSE s

Pad(s, n) == s \o [k \in 1..(n - Len(s)) |-> 0]

MaxOf(a, b) == IF a >= b THEN a ELSE b

RECURSIVE AddDigits(_, _, _, _)
AddDigits(a, b, k, c) ==
    LET s == a[k] + b[k] + c
    IN IF k = 1 THEN <<s>>
       ELSE Append(AddDigits(a, b, k - 1, s \div BASE), s % BASE)

\* a + b
Add(a, b) ==
    LET n == MaxOf(Len(a), Len(b))
    IN Norm(AddDigits(Pad(a, n), Pad(b, n), n, 0))

RECURSIVE SubDigits(_, _, _, _)
SubDigits(a, b, k, c) ==
    LET s == a[k] - b[k] - c
    IN IF k = 1 THEN <<s>>
       ELSE IF s < 0 THEN Append(SubDigits(a, b, k - 1, 1), s + BASE)
       ELSE Append(SubDigits(a, b, k - 1, 0), s)

RECURSIVE LessFrom(_, _, _)
LessFrom(a, b, k) ==
    IF k > Len(a) THEN FALSE
    ELSE IF a[k] # b[k] THEN a[k] < b[k]
    ELSE LessFrom(a, b, k + 1)

\* a < b
Less(a, b) ==
    LET n == MaxOf(Len(a), Len(b))
    IN LessFrom(Pad(a, n), Pad(b, n), 1)

\* abs(a - b)
AbsDiff(a, b) ==
    LET n == MaxOf(Len(a), Len(b))
        x == Pad(a, n)
        y == Pad(b, n)
    IN IF LessFrom(x, y, 1) THEN Norm(SubDigits(y, x, n, 0))
       ELSE Norm(SubDigits(x, y, n, 0))

RECURSIVE MulDigits(_, _, _, _)
MulDigits(a, m, k, c) ==
    LET s == a[k] * m + c
    IN IF k = 1 THEN <<s>>
       ELSE Append(MulDigits(a, m, k - 1, s \div BASE), s % BASE)

\* a * m, m a natural number
MulInt(a, m) == Norm(MulDigits(a, m, Len(a), 0))

\* a / m, m a divisor of BASE: a * (BASE / m) moved one digit to the right
DivInt(a, m) ==
    LET p == MulDigits(a, BASE \div m, Len(a), 0)
    IN Norm(<<p[1] \div BASE, p[1] % BASE>> \o Tail(p))

\* a * k / m, m a divisor of BASE
MulFrac(a, k, m) ==
    LET p == MulDigits(a, k * (BASE \div m), Len(a), 0)
    IN Norm(<<p[1] \div BASE, p[1] % BASE>> \o Tail(p))

\* the number k / DampDen
Frac(k) == DivInt(<<k>>, DampDen)

\* ------------------------------------------------------------- the state
VARIABLES
    call,               \* which function the caller invokes: "sample" or "iterate"
    corpus,             \* page -> set of pages it links to (pages are 1..N, in dict order)
    damping_factor,     \* the damping factor, as a numerator over DampDen
    n,                  \* sample_pagerank's n
    pc,                 \* "start", "sample_loop", "iter_loop", "done" (returned), "error" (raised)
    raised,             \* the exception that ended the call, "" when none
    i,                  \* sample_pagerank's loop counter
    sample_page,        \* the page sampled last (0: none yet)
    new_probabilities,  \* the transition distribution computed last
    probabilities,      \* page -> accumulated weight / current rank
    total,              \* the divisor of the final renormalisation
    candidates_list,    \* iterate_pagerank's list of pages still being refined
    idx,                \* position of the for loop's iterator in candidates_list
    passes,             \* number of the current pass of the while loop
    pass_start,         \* the pages in candidates_list when the current pass began
    computed            \* the pages whose new_pr the current pass has computed, in order

vars == <<call, corpus, damping_factor, n, pc, raised, i, sample_page,
          new_probabilities, probabilities, total, candidates_list, idx,
          passes, pass_start, computed>>

\* ----------------------------------------------------------- the inputs
\* crawl: every link of a page is another page of the corpus
ValidGraph(g) == \A p \in DOMAIN g : p \notin g[p] /\ g[p] \subseteq DOMAIN g

Graphs ==
    {g \in UNION {[1..N -> SUBSET (1..N)] : N \in 0..MaxNodes} : ValidGraph(g)}

\* sample_pagerank reads the corpus through its keys and link sets only and draws
\* pages by weight, so its runs on a corpus and on the same corpus with the pages
\* renamed correspond step by step: one ordering per corpus is enumerated, the one
\* with the out-degrees in descending order.  iterate_pagerank walks the pages in
\* dict order, so there every ordering is enumerated.
SampleGraphs ==
    {g \in Graphs :
        \A p, q \in DOMAIN g : p < q => Cardinality(g[p]) >= Cardinality(g[q])}

Dampings == {0, DampDen \div 2, DAMPING_NUM, DampDen}

\* ------------------------------------------------------ transition_model
RECURSIVE SumUpTo(_, _)
SumUpTo(f, k) == IF k = 0 THEN Zero ELSE Add(SumUpTo(f, k - 1), f[k])

\* sum(list(f.values()))
SumValues(f) == SumUpTo(f, Cardinality(DOMAIN f))

\* variant: (1 - damping_factor) // num_pages, the floor division
BaseProbFloor(num_pages, d) == <<(DampDen - d) \div (DampDen * num_pages)>>

\* (1 - damping_factor) / num_pages
BaseProb(num_pages, d) == DivInt(Frac(DampDen - d), num_pages)

\* variant: no special case for a page without links
transition_model_no_dangling(c, page, d) ==
    LET num_pages == Cardinality(DOMAIN c)
        num_links == Cardinality(c[page])
        prob == BaseProb(num_pages, d)
        linked == Add(prob, DivInt(Frac(d), num_links))
    IN [pg \in DOMAIN c |-> IF pg \in c[page] THEN linked ELSE prob]

transition_model(c, page, d) ==
    LET num_pages == Cardinality(DOMAIN c)
        num_links == Cardinality(c[page])
        uniform == DivInt(One, num_pages)
        prob == BaseProb(num_pages, d)
        linked == Add(prob, DivInt(Frac(d), num_links))
    IN IF num_links = 0
       THEN [pg \in DOMAIN c |-> uniform]
       ELSE [pg \in DOMAIN c |-> IF pg \in c[page] THEN linked ELSE prob]

\* ------------------------------------------------------- sample_pagerank
sample_init ==
    /\ pc = "start" /\ call = "sample"
    /\ probabilities' = [page \in DOMAIN corpus |-> Zero]
    /\ i' = 0
    /\ pc' = "sample_loop"
    /\ UNCHANGED <<call, corpus, damping_factor, n, raised, sample_page,
                   new_probabilities, total, candidates_list, idx, passes,
                   pass_start, computed>>

\* random.choice(list(probabilities.keys()))
FirstChoices(probs) == DOMAIN probs

\* variant: random.choice(keys), the weights ignored
UniformChoices(probs) == DOMAIN probs

\* random.choices(keys, weights=values): a page of positive weight
WeightedChoices(probs) == {page \in DOMAIN probs : Less(Zero, probs[page])}

Accumulate(page) ==
    /\ sample_page' = page
    /\ new_probabilities' = transition_model(corpus, page, damping_factor)
    /\ probabilities' = [pg \in DOMAIN probabilities |->
                            Add(probabilities[pg], new_probabilities'[pg])]
    /\ i' = i + 1
    /\ UNCHANGED <<call, corpus, damping_factor, n, pc, raised, total,
                   candidates_list, idx, passes, pass_start, computed>>

first_sample(page) ==
    /\ pc = "sample_loop" /\ i < n /\ i = 0
    /\ page \in FirstChoices(probabilities)
    /\ Accumulate(page)

\* random.choice of an empty list raises IndexError
first_sample_empty ==
    /\ pc = "sample_loop" /\ i < n /\ i = 0
    /\ FirstChoices(probabilities) = {}
    /\ pc' = "error" /\ raised' = "IndexError"
    /\ UNCHANGED <<call, corpus, damping_factor, n, i, sample_page,
                   new_probabilities, probabilities, total, candidates_list,
                   idx, passes, pass_start, computed>>

next_sample(page) ==
    /\ pc = "sample_loop" /\ i < n /\ i # 0
    /\ page \in WeightedChoices(probabilities)
    /\ Accumulate(page)

\* variant: the sum the ranks had when the loop began
NormTotalStale(probs) == One

\* total = sum(...); the returned rank of page is probabilities[page] / total
NormTotal(probs) == SumValues(probs)

sample_return ==
    /\ pc = "sample_loop" /\ ~(i < n)
    /\ IF n = 0 /\ DOMAIN probabilities # {}
       THEN /\ pc' = "error" /\ raised' = "ZeroDivisionError"
            /\ UNCHANGED <<probabilities, total>>
       ELSE /\ probabilities' = [page \in DOMAIN probabilities |->
                                    DivInt(probabilities[page], n)]
            /\ total' = NormTotal(probabilities')
            /\ pc' = "done"
            /\ UNCHANGED raised
    /\ UNCHANGED <<call, corpus, damping_factor, n, i, sample_page,
                   new_probabilities, candidates_list, idx, passes,
                   pass_start, computed>>

\* ------------------------------------------------------ iterate_pagerank
iterate_init ==
    /\ pc = "start" /\ call = "iterate"
    /\ IF DOMAIN corpus = {}
       THEN \* initial_prob = 1 / pages_num
            /\ pc' = "error" /\ raised' = "ZeroDivisionError"
            /\ UNCHANGED <<probabilities, candidates_list, idx, passes,
                           pass_start, computed>>
       ELSE /\ probabilities' = [page \in DOMAIN corpus |->
                                    DivInt(One, Cardinality(DOMAIN corpus))]
            /\ candidates_list' = [k \in 1..Cardinality(DOMAIN corpus) |-> k]
            /\ idx' = 0
            /\ passes' = 1
            /\ pass_start' = DOMAIN corpus
            /\ computed' = <<>>
            /\ pc' = "iter_loop"
            /\ UNCHANGED raised
    /\ UNCHANGED <<call, corpus, damping_factor, n, i, sample_page,
                   new_probabilities, total>>

\* variant: the rank of a linking page divided by the number of pages
ShareByPages(c, probs, page, extra) ==
    LET dangling == IF c[extra] = {}
                    THEN DivInt(probs[extra], Cardinality(DOMAIN c))
                    ELSE Zero
        linked == IF page \in c[extra]
                  THEN DivInt(probs[extra], Cardinality(DOMAIN c))
                  ELSE Zero
    IN Add(dangling, linked)

\* variant: a page without links passes its rank to no page
ShareNoDangling(c, probs, page, extra) ==
    IF page \in c[extra]
    THEN DivInt(probs[extra], Cardinality(c[extra]))
    ELSE Zero

\* what page `extra` adds to prob_total of `page`
Share(c, probs, page, extra) ==
    LET dangling == IF c[extra] = {}
                    THEN DivInt(probs[extra], Cardinality(DOMAIN c))
                    ELSE Zero
        linked == IF page \in c[extra]
                  THEN DivInt(probs[extra], Cardinality(c[extra]))
                  ELSE Zero
    IN Add(dangling, linked)

RECURSIVE ProbTotal(_, _, _, _)
ProbTotal(c, probs, page, k) ==
    IF k = 0 THEN Zero
    ELSE Add(ProbTotal(c, probs, page, k - 1), Share(c, probs, page, k))

\* variant: prob_total not multiplied by the damping factor
NewPrUndamped(c, probs, page, d) ==
    LET pages_num == Cardinality(DOMAIN c)
        prob_total == ProbTotal(c, probs, page, pages_num)
    IN Add(BaseProb(pages_num, d), prob_total)

\* new_pr = ((1 - damping_factor) / pages_num) + damping_factor * prob_total
NewPr(c, probs, page, d) ==
    LET pages_num == Cardinality(DOMAIN c)
        prob_total == ProbTotal(c, probs, page, pages_num)
    IN Add(BaseProb(pages_num, d), MulFrac(prob_total, d, DampDen))

\* abs(new_pr - probabilities[page]) < 0.001
Converged(new_pr, old_pr) == Less(MulInt(AbsDiff(new_pr, old_pr), EpsDen), One)

\* candidates_list.remove(page)
Remove(list, page) == SelectSeq(list, LAMBDA q : q # page)

\* variant: the rank of a page that converges is left as it was
StoreUnlessConverged(probs, page, new_pr) ==
    IF Converged(new_pr, probs[page]) THEN probs ELSE [probs EXCEPT ![page] = new_pr]

\* probabilities[page] = new_pr
Store(probs, page, new_pr) == [probs EXCEPT ![page] = new_pr]

SetOf(list) == {list[k] : k \in 1..Len(list)}

\* one iteration of `for page in candidates_list`: the list iterator yields the
\* element at its position and moves one on, whatever the body does to the list
iterate_step ==
    /\ pc = "iter_loop" /\ idx < Len(candidates_list)
    /\ LET page == candidates_list[idx + 1]
           new_pr == NewPr(corpus, probabilities, page, damping_factor)
       IN /\ candidates_list' =
                 IF Converged(new_pr, probabilities[page])
                 THEN Remove(candidates_list, page)
                 ELSE candidates_list
          /\ probabilities' = Store(probabilities, page, new_pr)
          /\ computed' = Append(computed, page)
    /\ idx' = idx + 1
    /\ UNCHANGED <<call, corpus, damping_factor, n, pc, raised, i, sample_page,
                   new_probabilities, total, passes, pass_start>>

\* the for loop is exhausted and the while condition holds: the next pass begins
iterate_next_pass ==
    /\ pc = "iter_loop" /\ ~(idx < Len(candidates_list))
    /\ Len(candidates_list) > 0
    /\ passes < MaxPasses
    /\ idx' = 0
    /\ passes' = passes + 1
    /\ pass_start' = SetOf(candidates_list)
    /\ computed' = <<>>
    /\ UNCHANGED <<call, corpus, damping_factor, n, pc, raised, i, sample_page,
                   new_probabilities, probabilities, total, candidates_list>>

iterate_return ==
    /\ pc = "iter_loop" /\ ~(idx < Len(candidates_list))
    /\ ~(Len(candidates_list) > 0)
    /\ total' = NormTotal(probabilities)
    /\ pc' = "done"
    /\ UNCHANGED <<call, corpus, damping_factor, n, raised, i, sample_page,
                   new_probabilities, probabilities, candidates_list, idx,
                   passes, pass_start, computed>>

\* ------------------------------------------------------ the specification
Init ==
    /\ call \in {"sample", "iterate"}
    /\ corpus \in IF call = "sample" THEN SampleGraphs ELSE Graphs
    /\ damping_factor \in Dampings
    /\ n \in IF call = "sample" THEN 0..MaxSamples ELSE {0}
    /\ pc = "start"
    /\ raised = ""
    /\ i = 0
    /\ sample_page = 0
    /\ new_probabilities = <<>>
    /\ probabilities = <<>>
    /\ total = Zero
    /\ candidates_list = <<>>
    /\ idx = 0
    /\ passes = 0
    /\ pass_start = {}
    /\ computed = <<>>

NextSample ==
    \/ sample_init
    \/ \E page \in DOMAIN corpus : first_sample(page)
    \/ first_sample_empty
    \/ \E page \in DOMAIN corpus : next_sample(page)
    \/ sample_return

NextIterate ==
    \/ iterate_init
    \/ iterate_step
    \/ iterate_next_pass
    \/ iterate_return

Next == NextSample \/ NextIterate

\* a call of either function
Spec == Init /\ [][Next]_vars

\* a call of sample_pagerank
InitSample == Init /\ call = "sample"

SpecSample == InitSample /\ [][NextSample]_vars

\* a call of iterate_pagerank
InitIterate == Init /\ call = "iterate"

SpecIterate == InitIterate /\ [][NextIterate]_vars

\* the position in the code
ctl == <<pc, idx, passes>>

\* The control part of NextIterate: its guards, and a change of the position in
\* the code.  In a run of SpecIterate a step changes ctl exactly when it is a
\* NextIterate step, and a change of ctl is possible exactly when NextIterate is
\* enabled.
Advance ==
    /\ \/ pc = "start"
       \/ /\ pc = "iter_loop"
          /\ \/ idx < Len(candidates_list)
             \/ Len(candidates_list) = 0
             \/ passes < MaxPasses
    /\ pc' \in {"iter_loop", "done", "error"}
    /\ idx' \in 0..MaxNodes
    /\ passes' \in 0..MaxPasses

\* a call of iterate_pagerank that the interpreter runs to its end: the single
\* thread of control takes its next step whenever there is one
FairIterate == SpecIterate /\ WF_ctl(Advance)

\* ================================================================ claims
Pages == DOMAIN corpus

Returned == pc = "done"

\* the 3-node cycle A -> B -> C -> A
Cycle3 == <<{2}, {3}, {1}>>

\* A links only to D, D has no links; in either dict order
LinkToDangling == {<<{2}, {}>>, <<{}, {1}>>}

\* C1: for a non-empty corpus, a damping factor in [0,1) and n >= 1, the ranks
\* returned by sample_pagerank and by iterate_pagerank (probabilities[page] / total)
\* sum to 1: the divisor is positive and equals the sum of the dividends.
C1_RanksSumToOne ==
    (/\ Returned
     /\ Pages # {}
     /\ damping_factor < DampDen
     /\ (call = "sample" => n >= 1))
    => /\ Less(Zero, total)
       /\ SumValues(probabilities) = total

\* iterate_pagerank has returned ranks whose sum before the renormalisation was not 1
C1_Witness ==
    /\ Returned /\ call = "iterate"
    /\ damping_factor = DAMPING_NUM
    /\ Less(total, One)

\* C3 as stated: for every damping factor in [0,1] transition_model gives every
\* page a strictly positive probability.
C3_Original ==
    sample_page # 0 => \A pg \in Pages : Less(Zero, new_probabilities[pg])

\* C3 as amended: transition_model gives every page a strictly positive
\* probability when the damping factor is below 1 or the current page has no
\* links; with damping factor 1 and a current page that has links, exactly the
\* pages it links to get a positive probability.
C3_PositiveBelowOne ==
    sample_page # 0 =>
        IF damping_factor < DampDen \/ corpus[sample_page] = {}
        THEN \A pg \in Pages : Less(Zero, new_probabilities[pg])
        ELSE \A pg \in Pages :
                Less(Zero, new_probabilities[pg]) <=> pg \in corpus[sample_page]

\* the distribution of a page with links, under damping 0.85, with a page it does not link to
C3_Witness ==
    /\ sample_page # 0
    /\ damping_factor = DAMPING_NUM
    /\ corpus[sample_page] # {}
    /\ Pages \ corpus[sample_page] # {sample_page}

\* C4: for a current page without links transition_model returns exactly 1/N for
\* each of the N pages, the current page included, whatever the damping factor.
C4_DanglingUniform ==
    (sample_page # 0 /\ corpus[sample_page] = {}) =>
        \A pg \in Pages : MulInt(new_probabilities[pg], Cardinality(Pages)) = One

\* the distribution of a page without links in a corpus of several pages, damping 0.85
C4_Witness ==
    /\ sample_page # 0
    /\ corpus[sample_page] = {}
    /\ Cardinality(Pages) >= 2
    /\ damping_factor = DAMPING_NUM

C10_State ==
    /\ (pc = "sample_loop" /\ i = 0) =>
           FirstChoices(probabilities) = Pages
    /\ (pc = "sample_loop" /\ i >= 1) =>
           /\ SumValues(probabilities) = <<i>>
           /\ WeightedChoices(probabilities) =
                  {page \in Pages : probabilities[page] # Zero}

C10_Step ==
    (pc = "sample_loop" /\ i' = i + 1) =>
        LET dist == transition_model(corpus, sample_page', damping_factor)
        IN /\ i >= 1 => probabilities[sample_page'] # Zero
           /\ probabilities' = [pg \in Pages |-> Add(probabilities[pg], dist[pg])]

\* C10: the first tracked page can be any page of the corpus; every later tracked
\* page is one whose accumulated weight is positive, and the pages that can be
\* drawn are those of positive weight; each step adds the transition distribution of the tracked page to the
\* accumulator, whose total weight after k steps is k.
C10_WeightedByAccumulator == []C10_State /\ [][C10_Step]_vars

\* damping 1, walk 1, 2, 2 in the corpus 1 -> 2 -> 3: page 2 is drawn again on the
\* weight page 1 gave it, though the distribution of page 2 gives page 2 weight 0
C10_Witness ==
    /\ corpus = <<{2}, {3}, {}>>
    /\ damping_factor = DampDen
    /\ i = 3
    /\ sample_page = 2
    /\ probabilities = <<Zero, One, <<2>>>>

\* C2: iterate_pagerank on a non-empty corpus with a damping factor in [0,1)
\* reaches the state where no candidate remains and returns.
C2_Terminates ==
    (pc = "start" /\ Pages # {} /\ damping_factor < DampDen) ~> Returned

\* a call with damping 0.85 that returned after ten passes or more
C2_Witness ==
    /\ Returned /\ call = "iterate"
    /\ damping_factor = DAMPING_NUM
    /\ passes >= 10

\* C5 as stated: with a damping factor outside [0,1) or an empty corpus
\* iterate_pagerank never returns a rank distribution.
C5_RejectsInvalid ==
    (call = "iterate" /\ (damping_factor >= DampDen \/ Pages = {})) => ~Returned

\* |probabilities[page] / total - num / den| < 0.001
NearRatio(page, num, den) ==
    Less(MulInt(AbsDiff(MulInt(probabilities[page], den), MulInt(total, num)), EpsDen),
         MulInt(total, den))

\* C6: for the corpus where A links only to D and D has no links, damping 0.85,
\* each returned rank is within 0.001 of the fixed point of the recurrence:
\* 20/57 (= 0.5/1.425) for A and 37/57 for D.
C6_DanglingFixedPoint ==
    (Returned /\ call = "iterate" /\ damping_factor = DAMPING_NUM
        /\ corpus \in LinkToDangling) =>
        \A page \in Pages :
            IF corpus[page] = {} THEN NearRatio(page, 37, 57)
            ELSE NearRatio(page, 20, 57)

\* iterate_pagerank has returned for that corpus, A first in the dict
C6_Witness ==
    /\ Returned /\ call = "iterate"
    /\ damping_factor = DAMPING_NUM
    /\ corpus = <<{2}, {}>>

\* C7: for the 3-node cycle with damping 0.85 iterate_pagerank returns, and each
\* returned rank is exactly 1/3.
C7_CycleUniform ==
    (pc = "start" /\ call = "iterate" /\ corpus = Cycle3
        /\ damping_factor = DAMPING_NUM)
    ~> (Returned /\ \A page \in Pages : MulInt(probabilities[page], 3) = total)

\* iterate_pagerank has returned for the cycle
C7_Witness ==
    /\ Returned /\ call = "iterate"
    /\ damping_factor = DAMPING_NUM
    /\ corpus = Cycle3

TimesComputed(page) == Cardinality({k \in 1..Len(computed) : computed[k] = page})

\* C8 as stated: when a pass ends, each page that was a candidate when the pass
\* began has had its new rank computed exactly once in that pass.
C8_FullPass ==
    (pc = "iter_loop" /\ ~(idx < Len(candidates_list))) =>
        \A page \in pass_start : TimesComputed(page) = 1

C9_Step ==
    pc = "iter_loop" =>
        /\ SetOf(candidates_list') \subseteq SetOf(candidates_list)
        /\ \A q \in Pages \ SetOf(candidates_list) :
               probabilities'[q] = probabilities[q]
        /\ idx' = idx + 1 =>
               LET page == candidates_list[idx + 1]
                   new_pr == NewPr(corpus, probabilities, page, damping_factor)
                   diff == AbsDiff(new_pr, probabilities[page])
               IN /\ probabilities'[page] = new_pr
                  /\ page \notin SetOf(candidates_list')
                         <=> Less(MulInt(diff, EpsDen), One)
                  /\ \A q \in SetOf(candidates_list) \ {page} :
                         /\ q \in SetOf(candidates_list')
                         /\ probabilities'[q] = probabilities[q]

\* C9: a page leaves the candidates exactly when its new rank is within 0.001
\* (strictly) of its previous rank; a page that has left never comes back and its
\* stored rank stays the new rank computed then; a page that does not meet the
\* threshold stays a candidate with its rank replaced by the new rank.
C9_FreezeOnConverge == [][C9_Step]_vars

\* in a later pass, one page has converged and another is still a candidate
C9_Witness ==
    /\ pc = "iter_loop"
    /\ passes >= 2
    /\ candidates_list # <<>>
    /\ Pages \ SetOf(candidates_list) # {}

====
